---------------------------- MODULE Spec2Model ----------------------------
(***************************************************************************)
(* A model of the Yatra travel-planning backend: the Express handlers of   *)
(* server/server.js and of server/routes/auth.js and server/routes/user.js *)
(* as state machines over the two Mongo collections.  Every handler is cut *)
(* at its awaits: the synchronous code that runs when the request arrives  *)
(* is one step, and every store or gateway call that answers is one step.  *)
(***************************************************************************)
EXTENDS Integers, Sequences, FiniteSets, TLC

VARIABLES
    users,      \* the users collection, in insertion order
    travels,    \* the travels collection, in insertion order
    now,        \* the server clock, in hours
    issued,     \* the tokens the clients hold: each user's last one
    reqs        \* one record per connection: the request in flight on it

vars == <<users, travels, now, issued, reqs>>

(***************************************************************************)
(* Values                                                                  *)
(***************************************************************************)

\* JavaScript's undefined: a body field or a header the client did not send.
Absent == "undefined"

\* null: what findOne and findById answer when nothing matches.
Null == [null |-> TRUE]

\* !x of the handlers, for the string-valued fields.
Falsy(x) == x = Absent \/ x = ""

\* The connections that can be open at once.
Slots == {"c1", "c2"}
SlotNo(c) == IF c = "c1" THEN 1 ELSE 2

Names == {"ann"}
Emails == {"a@x", "b@x"}
Passwords == {"pw1", "pw2"}

Opt(S) == S \cup {Absent}

\* The process-wide signing secret, and a key that is not the server's.
JWT_SECRET == "JWT_SECRET"
OtherKey == "attacker"

(***************************************************************************)
(* bcryptjs and jsonwebtoken, by their documented contracts                *)
(***************************************************************************)

\* bcrypt.hash(password, 10): the cost factor of both signup handlers.
BcryptCost == 10

\* The salts bcrypt.hash may draw.
Salts == {"s1"}

\* bcrypt.hash and bcrypt.compare reject when the password is not a string.
BcryptRejects(s) == s = Absent

\* bcrypt.hash(s, cost) with the salt it drew: one-way, so the model keeps
\* the preimage only to decide compare.
BcryptHash(s, cost, salt) == [alg |-> "bcrypt", cost |-> cost, salt |-> salt, of |-> s]

\* A compare that re-hashes with a salt of its own.
BcryptCompareFreshSalt(s, hash) == hash = BcryptHash(s, hash.cost, "fresh")

\* bcrypt.compare(s, hash): re-hash s with the hash's own salt and cost.
BcryptCompare(s, hash) == hash = BcryptHash(s, hash.cost, hash.salt)

\* expiresIn: '1h', in hours.
ExpiresIn == 1

\* The signature of a payload under a key.
JwtSignature(payload, key) == [key |-> key, over |-> payload]

\* jwt.sign(claims, key, { expiresIn: '1h' }) at time t.
JwtSign(claims, key, t) ==
    LET payload == [id |-> claims.id, iat |-> t, exp |-> t + ExpiresIn]
    IN  [payload |-> payload, sig |-> JwtSignature(payload, key)]

\* A string that is a well-formed JWT.
IsJwt(tok) == DOMAIN tok = {"payload", "sig"}

\* A verify that does not look at the expiry.
JwtVerifiesIgnoringExpiry(tok, key, t) ==
    /\ IsJwt(tok)
    /\ tok.sig = JwtSignature(tok.payload, key)

\* jwt.verify(token, key) at time t answers the payload; it throws on a
\* malformed token, a signature that is not the key's over this payload, and
\* an expiry that has been reached.
JwtVerifies(tok, key, t) ==
    /\ IsJwt(tok)
    /\ tok.sig = JwtSignature(tok.payload, key)
    /\ t < tok.payload.exp

(***************************************************************************)
(* The users collection                                                    *)
(***************************************************************************)

\* User.findOne({ email }).
FindOneByEmail(us, e) ==
    IF \E i \in 1..Len(us) : us[i].email = e
    THEN us[CHOOSE i \in 1..Len(us) : us[i].email = e]
    ELSE Null

\* User.findById(id).
FindById(us, id) ==
    IF \E i \in 1..Len(us) : us[i]._id = id
    THEN us[CHOOSE i \in 1..Len(us) : us[i]._id = id]
    ELSE Null

\* A collection without the unique index.
DuplicateKeyNoIndex(us, doc) == FALSE

\* email: { type: String, unique: true }: the index refuses a second
\* document with the same email (E11000).
DuplicateKey(us, doc) == \E i \in 1..Len(us) : us[i].email = doc.email

\* new User({ name, email, password }).save() once the index has let it in:
\* the document gets a fresh _id.
InsertUser(us, doc) ==
    Append(us, [_id |-> Len(us) + 1, name |-> doc.name, email |-> doc.email,
                password |-> doc.password])

(***************************************************************************)
(* Requests and responses                                                  *)
(***************************************************************************)

\* res.status(s).json(b)
Resp(s, b) == [status |-> s, body |-> b]
Err(msg) == [error |-> msg]
Msg(msg) == [message |-> msg]

\* The Authorization header: absent, or its value split at the spaces.
NoHeader == [present |-> FALSE, parts |-> <<>>]
Header(parts) == [present |-> TRUE, parts |-> parts]

\* A connection with no request on it.
NoRequest ==
    [kind |-> "none", body |-> [none |-> TRUE], hdr |-> NoHeader, pc |-> "idle",
     loc |-> [none |-> TRUE], res |-> <<>>, fault |-> FALSE, net |-> 0]

\* A request that has just arrived.
NewRequest(kind, body, hdr) ==
    [kind |-> kind, body |-> body, hdr |-> hdr, pc |-> "recv",
     loc |-> [none |-> TRUE], res |-> <<>>, fault |-> FALSE, net |-> 0]

\* The handler sends a response and returns.
Answer(q, resp) == [q EXCEPT !.pc = "done", !.res = Append(q.res, resp)]

\* The handler awaits its next store or gateway call.
Await(q, pc, loc) == [q EXCEPT !.pc = pc, !.loc = loc]

\* The handler sends a request to the mapping service with axios.get and
\* awaits the reply.
Call(q, pc, loc) == [q EXCEPT !.pc = pc, !.loc = loc, !.net = @ + 1]

\* A store or gateway call of the request failed.
Failed(q) == [q EXCEPT !.fault = TRUE]

\* The async handler's promise rejected outside any try: Express 4 sends
\* nothing, and the rejection is unhandled.
Unhandled(q) == [q EXCEPT !.pc = "unhandled"]

\* A connection whose last request is over.
Over(c) == reqs[c].pc \in {"idle", "done", "unhandled"}

\* A new request is taken on the first connection whose last request is over.
Free(c) == Over(c) /\ \A e \in Slots : Over(e) => SlotNo(c) <= SlotNo(e)

(***************************************************************************)
(* POST /signup of server.js                                               *)
(***************************************************************************)

\* The number of fields of a body the client left out.
Missing(body) == Cardinality({f \in DOMAIN body : body[f] = Absent})

\* The bodies sent to the route: complete, or with one field left out.
SignupBodies ==
    {b \in [name : Opt(Names), email : Opt(Emails), password : Opt(Passwords)] :
        Missing(b) <= 1}

\* The bodies sent to the route of routes/auth.js.
RouterSignupBodies == [name : Names, email : Emails, password : Opt(Passwords)]

SignupInvalid(body) == Falsy(body.name) \/ Falsy(body.email) \/ Falsy(body.password)

\* What the handler does after User.findOne answered `existing`.
SignupAfterFindOne(q, existing, salt) ==
    IF existing # Null
    THEN Answer(q, Resp(400, Err("Email already exists!")))
    ELSE Await(q, "save",
               [doc |-> [name |-> q.body.name, email |-> q.body.email,
                         password |-> BcryptHash(q.body.password, BcryptCost, salt)]])

\* What the handler answers when user.save() threw: the catch of the route.
SignupSaveThrew(q) == Answer(q, Resp(500, Err("Internal server error!")))

SignupReceive(c, body) ==
    /\ Free(c)
    /\ reqs' = [reqs EXCEPT ![c] =
           IF SignupInvalid(body)
           THEN Answer(NewRequest("signup", body, NoHeader),
                       Resp(400, Err("All fields are required!")))
           ELSE Await(NewRequest("signup", body, NoHeader), "findOne", [none |-> TRUE])]
    /\ UNCHANGED <<users, travels, now, issued>>

SignupFindOne(c, ok, salt) ==
    /\ reqs[c].kind = "signup" /\ reqs[c].pc = "findOne"
    /\ reqs' = [reqs EXCEPT ![c] =
           IF ~ok
           THEN Answer(Failed(@), Resp(500, Err("Internal server error!")))
           ELSE SignupAfterFindOne(@, FindOneByEmail(users, @.body.email), salt)]
    /\ UNCHANGED <<users, travels, now, issued>>

SignupSave(c, ok) ==
    /\ reqs[c].kind = "signup" /\ reqs[c].pc = "save"
    /\ LET q == reqs[c]
           stored == ok /\ ~DuplicateKey(users, q.loc.doc)
       IN  /\ users' = IF stored THEN InsertUser(users, q.loc.doc) ELSE users
           /\ reqs' = [reqs EXCEPT ![c] =
                  IF stored
                  THEN Answer(q, Resp(201, Msg("User registered successfully!")))
                  ELSE SignupSaveThrew(IF ok THEN q ELSE Failed(q))]
    /\ UNCHANGED <<travels, now, issued>>

(***************************************************************************)
(* POST /signup of routes/auth.js                                          *)
(***************************************************************************)

\* bcrypt.hash runs before the try: a rejection leaves the handler.
RouterSignupReceive(c, body, salt) ==
    /\ Free(c)
    /\ reqs' = [reqs EXCEPT ![c] =
           IF BcryptRejects(body.password)
           THEN Unhandled(NewRequest("r_signup", body, NoHeader))
           ELSE Await(NewRequest("r_signup", body, NoHeader), "save",
                      [doc |-> [name |-> body.name, email |-> body.email,
                                password |-> BcryptHash(body.password, BcryptCost, salt)]])]
    /\ UNCHANGED <<users, travels, now, issued>>

\* What the handler answers when user.save() threw, whatever the error.
RouterSignupSaveThrew(q) == Answer(q, Resp(400, Err("Email already exists!")))

RouterSignupSave(c, ok) ==
    /\ reqs[c].kind = "r_signup" /\ reqs[c].pc = "save"
    /\ LET q == reqs[c]
           stored == ok /\ ~DuplicateKey(users, q.loc.doc)
       IN  /\ users' = IF stored THEN InsertUser(users, q.loc.doc) ELSE users
           /\ reqs' = [reqs EXCEPT ![c] =
                  IF stored
                  THEN Answer(q, Resp(201, Msg("User registered successfully!")))
                  ELSE RouterSignupSaveThrew(IF ok THEN q ELSE Failed(q))]
    /\ UNCHANGED <<travels, now, issued>>

(***************************************************************************)
(* POST /login of server.js and of routes/auth.js                          *)
(***************************************************************************)

LoginBodies ==
    {b \in [email : Opt(Emails), password : Opt(Passwords)] : Missing(b) <= 1}

LoginInvalid(body) == Falsy(body.email) \/ Falsy(body.password)

\* The response of server.js once User.findOne answered `user`, at time t.
LoginAnswer(user, body, t) ==
    IF user = Null
    THEN Resp(400, Err("Invalid email or password!"))
    ELSE IF ~BcryptCompare(body.password, user.password)
    THEN Resp(400, Err("Invalid email or password!"))
    ELSE Resp(200, [message |-> "Login successful!",
                    token |-> JwtSign([id |-> user._id], JWT_SECRET, t),
                    user |-> [id |-> user._id, name |-> user.name, email |-> user.email]])

\* The response of routes/auth.js once User.findOne answered `user`: a
\* rejection of bcrypt.compare lands in the catch.
RouterLoginAnswer(user, body, t) ==
    IF user = Null
    THEN Resp(400, Err("Invalid email or password!"))
    ELSE IF BcryptRejects(body.password)
    THEN Resp(500, Err("Internal server error!"))
    ELSE IF ~BcryptCompare(body.password, user.password)
    THEN Resp(400, Err("Invalid email or password!"))
    ELSE Resp(200, [message |-> "Login successful!",
                    token |-> JwtSign([id |-> user._id], JWT_SECRET, t),
                    user |-> [id |-> user._id, username |-> user.name,
                              email |-> user.email, travelHistory |-> <<>>]])

\* The tokens the clients hold after a response: a client keeps the token of
\* its last login.
Circulating(resp) ==
    IF resp.status = 200
    THEN {t \in issued : t.payload.id # resp.body.token.payload.id} \cup {resp.body.token}
    ELSE issued

LoginReceive(c, body) ==
    /\ Free(c)
    /\ reqs' = [reqs EXCEPT ![c] =
           IF LoginInvalid(body)
           THEN Answer(NewRequest("login", body, NoHeader),
                       Resp(400, Err("All fields are required!")))
           ELSE Await(NewRequest("login", body, NoHeader), "findOne", [none |-> TRUE])]
    /\ UNCHANGED <<users, travels, now, issued>>

LoginFindOne(c, ok) ==
    /\ reqs[c].kind = "login" /\ reqs[c].pc = "findOne"
    /\ LET q == reqs[c]
           resp == IF ok THEN LoginAnswer(FindOneByEmail(users, q.body.email), q.body, now)
                   ELSE Resp(500, Err("Internal server error!"))
       IN  /\ reqs' = [reqs EXCEPT ![c] = Answer(IF ok THEN q ELSE Failed(q), resp)]
           /\ issued' = Circulating(resp)
    /\ UNCHANGED <<users, travels, now>>

RouterLoginReceive(c, body) ==
    /\ Free(c)
    /\ reqs' = [reqs EXCEPT ![c] =
           Await(NewRequest("r_login", body, NoHeader), "findOne", [none |-> TRUE])]
    /\ UNCHANGED <<users, travels, now, issued>>

RouterLoginFindOne(c, ok) ==
    /\ reqs[c].kind = "r_login" /\ reqs[c].pc = "findOne"
    /\ LET q == reqs[c]
           resp == IF ok THEN RouterLoginAnswer(FindOneByEmail(users, q.body.email), q.body, now)
                   ELSE Resp(500, Err("Internal server error!"))
       IN  /\ reqs' = [reqs EXCEPT ![c] = Answer(IF ok THEN q ELSE Failed(q), resp)]
           /\ issued' = Circulating(resp)
    /\ UNCHANGED <<users, travels, now>>

(***************************************************************************)
(* The specification of the credential handlers                            *)
(***************************************************************************)

Init ==
    /\ users = <<>>
    /\ travels = <<>>
    /\ now = 0
    /\ issued = {}
    /\ reqs = [c \in Slots |-> NoRequest]

NextAuth ==
    \E c \in Slots :
        \/ \E body \in SignupBodies : SignupReceive(c, body)
        \/ \E ok \in BOOLEAN, salt \in Salts : SignupFindOne(c, ok, salt)
        \/ \E ok \in BOOLEAN : SignupSave(c, ok)
        \/ \E body \in RouterSignupBodies, salt \in Salts : RouterSignupReceive(c, body, salt)
        \/ \E ok \in BOOLEAN : RouterSignupSave(c, ok)
        \/ \E body \in LoginBodies : LoginReceive(c, body)
        \/ \E ok \in BOOLEAN : LoginFindOne(c, ok)
        \/ \E body \in LoginBodies : RouterLoginReceive(c, body)
        \/ \E ok \in BOOLEAN : RouterLoginFindOne(c, ok)

SpecAuth == Init /\ [][NextAuth]_vars

(***************************************************************************)
(* authenticateToken                                                       *)
(***************************************************************************)

\* A part of the header that is the word w.
Word(w) == [word |-> w]

\* What [1] of the split answers when there is no second part.
NoToken == [absent |-> TRUE]

\* A second part that is no JWT at all.
Malformed == [malformed |-> TRUE]

\* A middleware that takes the first part of the header for the token.
BearerTokenFirstPart(hdr) ==
    IF ~hdr.present \/ Len(hdr.parts) < 1 THEN NoToken ELSE hdr.parts[1]

\* req.headers.authorization?.split(' ')[1]
BearerToken(hdr) ==
    IF ~hdr.present \/ Len(hdr.parts) < 2 THEN NoToken ELSE hdr.parts[2]

\* authenticateToken of server.js at time t: the response it sends, or the
\* decoded payload it puts in req.user before it calls next().
AuthenticateToken(hdr, t) ==
    LET token == BearerToken(hdr)
    IN  IF token = NoToken
        THEN [next |-> FALSE, resp |-> Resp(401, Err("Access denied!"))]
        ELSE IF JwtVerifies(token, JWT_SECRET, t)
        THEN [next |-> TRUE, user |-> token.payload]
        ELSE [next |-> FALSE, resp |-> Resp(403, Err("Invalid token!"))]

\* middleware/authenticateToken, which routes/user.js requires: no bearer
\* token is a 401, a token that does not verify a 403, and a verified token
\* exposes its payload to the handler.
MiddlewareAuthenticateToken(hdr, t) ==
    LET token == BearerToken(hdr)
    IN  IF token = NoToken
        THEN [next |-> FALSE, resp |-> Resp(401, Err("Access denied!"))]
        ELSE IF JwtVerifies(token, JWT_SECRET, t)
        THEN [next |-> TRUE, user |-> token.payload]
        ELSE [next |-> FALSE, resp |-> Resp(403, Err("Invalid token!"))]

(***************************************************************************)
(* POST /save-travel                                                       *)
(***************************************************************************)

\* The largest clock value and the largest travels collection explored.
MaxClock == 1
MaxTravels == 2

SaveTravelInvalid(body) == Falsy(body.destination) \/ body.budget = 0 \/ body.nights = 0

\* new Travel({ userId: req.user.id, destination, budget, date: new Date(), nights })
NewTravel(user, body, t) ==
    [userId |-> user.id, destination |-> body.destination, budget |-> body.budget,
     date |-> t, nights |-> body.nights]

\* travel.save(): the document gets a fresh _id.
InsertTravel(ts, doc) ==
    Append(ts, [_id |-> Len(ts) + 1, userId |-> doc.userId,
                destination |-> doc.destination, budget |-> doc.budget,
                date |-> doc.date, nights |-> doc.nights])

\* req.user = decoded
WithUser(q, user) == [q EXCEPT !.loc = [user |-> user]]

\* The handler of the route, once authenticateToken called next().
SaveTravelHandler(q, t) ==
    IF SaveTravelInvalid(q.body)
    THEN Answer(q, Resp(400, Err("All fields are required!")))
    ELSE Await(q, "save", [user |-> q.loc.user, doc |-> NewTravel(q.loc.user, q.body, t)])

SaveTravelReceive(c, hdr, body) ==
    /\ Free(c)
    /\ LET q == NewRequest("save-travel", body, hdr)
           auth == AuthenticateToken(hdr, now)
       IN  reqs' = [reqs EXCEPT ![c] =
               IF auth.next THEN SaveTravelHandler(WithUser(q, auth.user), now)
               ELSE Answer(q, auth.resp)]
    /\ UNCHANGED <<users, travels, now, issued>>

SaveTravelSave(c, ok) ==
    /\ reqs[c].kind = "save-travel" /\ reqs[c].pc = "save"
    /\ ok => Len(travels) < MaxTravels
    /\ LET q == reqs[c]
       IN  /\ travels' = IF ok THEN InsertTravel(travels, q.loc.doc) ELSE travels
           /\ reqs' = [reqs EXCEPT ![c] =
                  IF ok
                  THEN Answer(q, Resp(201, Msg("Travel data saved successfully!")))
                  ELSE Answer(Failed(q), Resp(500, Err("Failed to save travel data!")))]
    /\ UNCHANGED <<users, now, issued>>

(***************************************************************************)
(* GET /travel-history                                                     *)
(***************************************************************************)

\* Travel.find({ userId }): the matching documents, in collection order.
FindTravels(ts, uid) == SelectSeq(ts, LAMBDA t : t.userId = uid)

\* A find without the sort: collection order.
SortByDateDescUnsorted(found) == {found}

\* .sort({ date: -1 }): the orders the sort may answer: newest first, and
\* documents of one date in any order.
SortByDateDesc(found) ==
    {[i \in 1..Len(found) |-> found[p[i]]] : p \in
        {p \in Permutations(1..Len(found)) :
            \A i, j \in 1..Len(found) : i < j => found[p[i]].date >= found[p[j]].date}}

TravelHistoryReceive(c, hdr) ==
    /\ Free(c)
    /\ LET q == NewRequest("travel-history", [none |-> TRUE], hdr)
           auth == AuthenticateToken(hdr, now)
       IN  reqs' = [reqs EXCEPT ![c] =
               IF auth.next THEN Await(WithUser(q, auth.user), "find", [user |-> auth.user])
               ELSE Answer(q, auth.resp)]
    /\ UNCHANGED <<users, travels, now, issued>>

TravelHistoryFind(c, ok) ==
    /\ reqs[c].kind = "travel-history" /\ reqs[c].pc = "find"
    /\ LET q == reqs[c]
       IN  IF ok
           THEN \E sorted \in SortByDateDesc(FindTravels(travels, q.loc.user.id)) :
                    reqs' = [reqs EXCEPT ![c] = Answer(q, Resp(200, sorted))]
           ELSE reqs' = [reqs EXCEPT ![c] =
                    Answer(Failed(q), Resp(500, Err("Failed to fetch travel history!")))]
    /\ UNCHANGED <<users, travels, now, issued>>

(***************************************************************************)
(* GET /user-data of routes/user.js                                        *)
(***************************************************************************)

\* .select('-password')
SelectMinusPassword(user) ==
    IF user = Null THEN Null
    ELSE [_id |-> user._id, name |-> user.name, email |-> user.email]

UserDataReceive(c, hdr) ==
    /\ Free(c)
    /\ LET q == NewRequest("user-data", [none |-> TRUE], hdr)
           auth == MiddlewareAuthenticateToken(hdr, now)
       IN  reqs' = [reqs EXCEPT ![c] =
               IF auth.next THEN Await(WithUser(q, auth.user), "find", [user |-> auth.user])
               ELSE Answer(q, auth.resp)]
    /\ UNCHANGED <<users, travels, now, issued>>

UserDataFind(c, ok) ==
    /\ reqs[c].kind = "user-data" /\ reqs[c].pc = "find"
    /\ LET q == reqs[c]
       IN  reqs' = [reqs EXCEPT ![c] =
               IF ok
               THEN Answer(q, Resp(200, SelectMinusPassword(FindById(users, q.loc.user.id))))
               ELSE Answer(Failed(q), Resp(500, Err("Failed to fetch user data")))]
    /\ UNCHANGED <<users, travels, now, issued>>

(***************************************************************************)
(* The specification of the protected routes                               *)
(***************************************************************************)

\* An hour passes.
Tick ==
    /\ now < MaxClock
    /\ now' = now + 1
    /\ UNCHANGED <<users, travels, issued, reqs>>

\* The travellers: one account per email.
Travellers == {[name |-> "ann", email |-> e, password |-> "pw1"] : e \in Emails}
TravellerLogins == {[email |-> e, password |-> "pw1"] : e \in Emails}

\* What a client can make of a token it holds: alter the user id or the
\* expiry of the payload and keep the signature, or sign the payload with a
\* key of its own.
Tampered(t) ==
    {[t EXCEPT !.payload.id = i] : i \in (1..Cardinality(Emails)) \ {t.payload.id}}
    \cup {[t EXCEPT !.payload.exp = t.payload.exp + 1]}
    \cup {[t EXCEPT !.sig = JwtSignature(t.payload, OtherKey)]}

\* The Authorization headers of clients that send what they were given.
PlainHeaders ==
    {NoHeader} \cup {Header(<<Word("Bearer"), t>>) : t \in issued}

\* The Authorization headers of clients that also leave out the scheme, send
\* something that is no token, or tamper with a token they hold.
Headers ==
    PlainHeaders
    \cup {Header(<<Word("Bearer")>>), Header(<<Word("Bearer"), Malformed>>)}
    \cup {Header(<<t>>) : t \in issued}
    \cup {Header(<<Word("Bearer"), f>>) : f \in UNION {Tampered(t) : t \in issued}}

\* A trip, and the trip without its destination.
Trip == [destination |-> "Goa", budget |-> 5000, nights |-> 2]
TripBodies == {Trip, [Trip EXCEPT !.destination = Absent]}

\* The bodies sent to /save-travel: also a trip of no nights.
SaveTravelBodies == TripBodies \cup {[Trip EXCEPT !.nights = 0]}

\* The travellers sign up and log in, one request at a time, with the store
\* answering.
Onboard(c) ==
    \/ \E body \in Travellers : SignupReceive(c, body)
    \/ \E salt \in Salts : SignupFindOne(c, TRUE, salt)
    \/ SignupSave(c, TRUE)
    \/ \E body \in TravellerLogins : LoginReceive(c, body)
    \/ LoginFindOne(c, TRUE)

\* The travel routes: the first connection carries every request, and the
\* second a save that overlaps it.
NextTravel ==
    \/ Tick
    \/ Onboard("c1")
    \/ \E hdr \in PlainHeaders, body \in TripBodies : SaveTravelReceive("c1", hdr, body)
    \/ \E hdr \in PlainHeaders \ {NoHeader} : SaveTravelReceive("c2", hdr, Trip)
    \/ \E c \in Slots, ok \in BOOLEAN : SaveTravelSave(c, ok)
    \/ \E hdr \in PlainHeaders : TravelHistoryReceive("c1", hdr)
    \/ \E ok \in BOOLEAN : TravelHistoryFind("c1", ok)

SpecTravel == Init /\ [][NextTravel]_vars

\* The gate of the protected routes, which reads nothing but the header, the
\* secret and the clock: one connection, and every header a client can send.
NextGuard ==
    \/ Tick
    \/ Onboard("c1")
    \/ \E hdr \in Headers, body \in SaveTravelBodies : SaveTravelReceive("c1", hdr, body)
    \/ \E ok \in BOOLEAN : SaveTravelSave("c1", ok)
    \/ \E hdr \in Headers : TravelHistoryReceive("c1", hdr)
    \/ \E ok \in BOOLEAN : TravelHistoryFind("c1", ok)
    \/ \E hdr \in Headers : UserDataReceive("c1", hdr)
    \/ \E ok \in BOOLEAN : UserDataFind("c1", ok)

SpecGuard == Init /\ [][NextGuard]_vars

(***************************************************************************)
(* JavaScript values of the budget route                                   *)
(***************************************************************************)

\* A number, or NaN.  Distances are counted in half kilometres, rates in
\* half rupees per kilometre and money in quarter rupees, which holds every
\* rate of the table and every product of the route exactly.
Num(v) == [nan |-> FALSE, v |-> v]
NaN == [nan |-> TRUE, v |-> 0]

Rupees(n) == 4 * n

\* The properties every object literal inherits from Object.prototype.
ObjectPrototype == {"constructor", "toString", "__proto__"}

\* obj[key]: an own property, a property found up the prototype chain, or
\* undefined.
Get(obj, key) ==
    IF key \in DOMAIN obj THEN [is |-> "own", val |-> obj[key]]
    ELSE IF key \in ObjectPrototype THEN [is |-> "inherited", val |-> key]
    ELSE [is |-> "undefined"]

\* g[key], for g an answer of Get that is truthy.
GetOf(g, key) ==
    IF g.is = "own" THEN Get(g.val, key)
    ELSE IF key \in ObjectPrototype THEN [is |-> "inherited", val |-> key]
    ELSE [is |-> "undefined"]

\* !g is false: own properties of the two tables are objects and non-zero
\* numbers, inherited ones are functions and objects.
Truthy(g) == g.is # "undefined"

\* The value of g in a product: a number of the table, or NaN for undefined
\* and for a function.
ToNumber(g) == IF g.is = "own" THEN Num(g.val) ELSE NaN

Times(a, b) == IF a.nan \/ b.nan THEN NaN ELSE Num(a.v * b.v)
Plus(a, b) == IF a.nan \/ b.nan THEN NaN ELSE Num(a.v + b.v)

Digits == [d0 |-> 0, d1 |-> 1, d2 |-> 2, d5 |-> 5, d9 |-> 9]
IsDigit(ch) == ch \in DOMAIN Digits

\* The length of the longest prefix of text made of digits.
RECURSIVE DigitRun(_)
DigitRun(text) ==
    IF text = <<>> \/ ~IsDigit(Head(text)) THEN 0 ELSE 1 + DigitRun(Tail(text))

\* The number a run of digits writes.
RECURSIVE Decimal(_)
Decimal(ds) ==
    IF ds = <<>> THEN 0 ELSE 10 * Decimal(SubSeq(ds, 1, Len(ds) - 1)) + Digits[ds[Len(ds)]]

RECURSIVE Pow10(_)
Pow10(k) == IF k = 0 THEN 1 ELSE 10 * Pow10(k - 1)

\* parseFloat(text), in quarter rupees: the longest prefix that is digits,
\* then possibly a point and digits; NaN when that prefix holds no digit.
ParseFloat(text) ==
    LET n == DigitRun(text)
        rest == SubSeq(text, n + 1, Len(text))
        k == IF rest # <<>> /\ Head(rest) = "pt" THEN DigitRun(Tail(rest)) ELSE 0
        whole == Decimal(SubSeq(text, 1, n))
        frac == Decimal(SubSeq(rest, 2, k + 1))
    IN  IF n + k = 0 THEN NaN
        ELSE Num(Rupees(whole) + (Rupees(frac) \div Pow10(k)))

(***************************************************************************)
(* POST /calculate-budget                                                  *)
(***************************************************************************)

pricing ==
    [MidRange |-> [hotelCostPerNight |-> 1500, foodCostPerDay |-> 600],
     Luxury |-> [hotelCostPerNight |-> 3000, foodCostPerDay |-> 1200]]

\* The rates of the table, doubled: 'Volvo Non-AC' is 3.5 rupees per km.
transportPricing ==
    [Bus |-> [OrdinaryStateBus |-> 4, VolvoNonAC |-> 7, ACBus |-> 10],
     Train |-> [Sleeper |-> 3, AC3Tier |-> 6, AC2Tier |-> 9, ACFirstClass |-> 14],
     Flight |-> [Economy |-> 16, Business |-> 30, FirstClass |-> 50]]

\* The guard of the route is false: the request goes on to the service.
BudgetAccepted(body) ==
    /\ Truthy(Get(pricing, body.budgetLevel))
    /\ Truthy(Get(transportPricing, body.transportMode))
    /\ Truthy(GetOf(Get(transportPricing, body.transportMode), body.transportSubtype))

\* const { hotelCostPerNight, foodCostPerDay } = pricing[budgetLevel] and
\* perKmRate = transportPricing[transportMode][transportSubtype]
BudgetRates(body) ==
    [hotelCostPerNight |-> ToNumber(GetOf(Get(pricing, body.budgetLevel), "hotelCostPerNight")),
     foodCostPerDay |-> ToNumber(GetOf(Get(pricing, body.budgetLevel), "foodCostPerDay")),
     perKmRate |-> ToNumber(GetOf(Get(transportPricing, body.transportMode),
                                  body.transportSubtype))]

\* response.data.rows[0].elements[0].distance?.value || 0, then / 1000: the
\* distance in half kilometres.
DistanceKm(reply) ==
    IF "distance" \in DOMAIN reply.rows[1].elements[1]
    THEN Num(reply.rows[1].elements[1].distance.value \div 500)
    ELSE Num(0)

\* shoppingAmount ? parseFloat(shoppingAmount) : 0
ShoppingCost(amount) == IF amount = <<>> THEN Num(0) ELSE ParseFloat(amount)

\* A breakdown that counts one hotel room for the whole party.
BudgetBreakdownOneRoom(body, rates, distanceKm) ==
    LET transportationCost ==
            Times(Times(Num(body.travelers), distanceKm), rates.perKmRate)
        foodCost ==
            Times(Times(Num(body.travelers), Num(body.nights)),
                  Times(Num(Rupees(1)), rates.foodCostPerDay))
        shoppingCost == ShoppingCost(body.shoppingAmount)
        hotelCost ==
            Times(Num(body.nights), Times(Num(Rupees(1)), rates.hotelCostPerNight))
    IN  [distanceInKm |-> distanceKm,
         transportationCost |-> transportationCost,
         foodCost |-> foodCost,
         shoppingCost |-> shoppingCost,
         hotelCost |-> hotelCost,
         totalCost |-> Plus(Plus(Plus(transportationCost, foodCost), shoppingCost), hotelCost)]

\* The five costs of the response.
BudgetBreakdown(body, rates, distanceKm) ==
    LET transportationCost ==
            Times(Times(Num(body.travelers), distanceKm), rates.perKmRate)
        foodCost ==
            Times(Times(Num(body.travelers), Num(body.nights)),
                  Times(Num(Rupees(1)), rates.foodCostPerDay))
        shoppingCost == ShoppingCost(body.shoppingAmount)
        hotelCost ==
            Times(Times(Num(body.travelers), Num(body.nights)),
                  Times(Num(Rupees(1)), rates.hotelCostPerNight))
    IN  [distanceInKm |-> distanceKm,
         transportationCost |-> transportationCost,
         foodCost |-> foodCost,
         shoppingCost |-> shoppingCost,
         hotelCost |-> hotelCost,
         totalCost |-> Plus(Plus(Plus(transportationCost, foodCost), shoppingCost), hotelCost)]

\* The replies of the distance matrix service: a route, no route between the
\* two places, and no row at all (a request the service denied).
Route(metres) == [rows |-> <<[elements |-> <<[distance |-> [value |-> metres]]>>]>>]
NoRoute == [rows |-> <<[elements |-> <<[status |-> "NOT_FOUND"]>>]>>]
NoRows == [rows |-> <<>>]

CalculateBudgetReceive(c, body) ==
    /\ Free(c)
    /\ LET q == NewRequest("calculate-budget", body, NoHeader)
       IN  reqs' = [reqs EXCEPT ![c] =
               IF ~BudgetAccepted(body)
               THEN Answer(q, Resp(400, Err("Invalid budget level or transportation type.")))
               ELSE Call(q, "distance", [rates |-> BudgetRates(body)])]
    /\ UNCHANGED <<users, travels, now, issued>>

\* The service answered, or axios.get rejected.
CalculateBudgetReply(c, ok, reply) ==
    /\ reqs[c].kind = "calculate-budget" /\ reqs[c].pc = "distance"
    /\ LET q == reqs[c]
       IN  reqs' = [reqs EXCEPT ![c] =
               IF ok /\ reply.rows # <<>>
               THEN Answer(q, Resp(200, BudgetBreakdown(q.body, q.loc.rates, DistanceKm(reply))))
               ELSE Answer(Failed(q), Resp(500, Err("Error fetching distance data.")))]
    /\ UNCHANGED <<users, travels, now, issued>>

(***************************************************************************)
(* POST /get-places                                                        *)
(***************************************************************************)

\* One result of the text search, as the route maps it.
PlaceSummary(place) ==
    [name |-> place.name, address |-> place.formatted_address, rating |-> place.rating,
     photo |-> IF "photos" \in DOMAIN place
               THEN [url |-> "https://maps.googleapis.com/maps/api/place/photo",
                     maxwidth |-> 400,
                     photoreference |-> place.photos[1].photo_reference]
               ELSE Null]

GetPlacesReceive(c, body) ==
    /\ Free(c)
    /\ LET q == NewRequest("get-places", body, NoHeader)
       IN  reqs' = [reqs EXCEPT ![c] =
               IF Falsy(body.destination)
               THEN Answer(q, Resp(400, Err("Destination is required.")))
               ELSE Call(q, "places", [query |-> <<"Tourist attractions in", body.destination>>])]
    /\ UNCHANGED <<users, travels, now, issued>>

GetPlacesReply(c, ok, reply) ==
    /\ reqs[c].kind = "get-places" /\ reqs[c].pc = "places"
    /\ LET q == reqs[c]
       IN  reqs' = [reqs EXCEPT ![c] =
               IF ~ok
               THEN Answer(Failed(q), Resp(500, Err("Error fetching places data.")))
               ELSE IF reply.status # "OK"
               THEN Answer(Failed(q), Resp(500, Err("Failed to fetch places data. Please check your Google API key and settings.")))
               ELSE Answer(q, Resp(200, [i \in 1..Len(reply.results) |->
                                            PlaceSummary(reply.results[i])]))]
    /\ UNCHANGED <<users, travels, now, issued>>

(***************************************************************************)
(* The specification of the two gateway routes                             *)
(***************************************************************************)

\* The shopping amounts sent: none, '', '250', '99.5', '12abc' and 'abc'.
ShoppingAmounts ==
    {<<>>, <<"d2", "d5", "d0">>, <<"d9", "d9", "pt", "d5">>, <<"d1", "d2", "a", "b">>,
     <<"a", "b", "c">>}

\* Two complete requests: the example of the documentation (Mid-Range, Bus /
\* AC Bus, 2 travellers, 3 nights, no shopping amount), and a luxury flight.
BaseChoices ==
    {<<"MidRange", <<"Bus", "ACBus">>, 2, 3, <<>>>>,
     <<"Luxury", <<"Flight", "Economy">>, 1, 3, <<"d2", "d5", "d0">>>>}

\* Tiers and transports: known ones, unknown ones, a fare class of another
\* mode, and names every object inherits.
BudgetChoices ==
    {"MidRange", "Luxury", "Budget", "constructor"}
    \X {<<"Bus", "ACBus">>, <<"Bus", "VolvoNonAC">>, <<"Flight", "Economy">>,
        <<"Ship", "ACBus">>, <<"Bus", "Economy">>, <<"constructor", "constructor">>}
    \X {1, 2} \X {0, 3} \X ShoppingAmounts

\* The bodies sent to /calculate-budget: one of the two, changed in at most
\* one of tier, transport, travellers, nights and shopping amount.
BudgetBodies ==
    {[budgetLevel |-> ch[1], transportMode |-> ch[2][1], transportSubtype |-> ch[2][2],
      travelers |-> ch[3], nights |-> ch[4], shoppingAmount |-> ch[5]] :
        ch \in {x \in BudgetChoices :
                   \E base \in BaseChoices :
                       Cardinality({i \in 1..5 : x[i] # base[i]}) <= 1}}

\* The replies of the distance matrix service: 100 km, 1.5 km, or none.
DistanceReplies == {Route(100000), Route(1500), NoRoute, NoRows}

Gateway == [name |-> "Gateway of India", formatted_address |-> "Mumbai", rating |-> 5,
            photos |-> <<[photo_reference |-> "ref1"]>>]
Beach == [name |-> "Juhu Beach", formatted_address |-> "Mumbai", rating |-> 4]

PlacesReplies ==
    {[status |-> "OK", results |-> <<>>], [status |-> "OK", results |-> <<Gateway, Beach>>],
     [status |-> "REQUEST_DENIED", results |-> <<>>]}

NextBudget ==
    \E c \in Slots :
        \/ \E body \in BudgetBodies : CalculateBudgetReceive(c, body)
        \/ \E ok \in BOOLEAN, reply \in DistanceReplies : CalculateBudgetReply(c, ok, reply)
        \/ \E dest \in Opt({"Mumbai"}) : GetPlacesReceive(c, [destination |-> dest])
        \/ \E ok \in BOOLEAN, reply \in PlacesReplies : GetPlacesReply(c, ok, reply)

SpecBudget == Init /\ [][NextBudget]_vars

(***************************************************************************)
(* Properties of the credential handlers                                   *)
(***************************************************************************)

SignupKinds == {"signup", "r_signup"}
LoginKinds == {"login", "r_login"}

\* The step answers (or abandons) the request on connection c.
Completes(c) == reqs'[c] # reqs[c] /\ reqs'[c].pc \in {"done", "unhandled"}

\* The step sends the response of the request on connection c.
Answers(c) == reqs'[c] # reqs[c] /\ reqs'[c].pc = "done"

\* The step is the first look of a signup at the store (or its validation).
FirstLook(c) ==
    \/ Over(c)
    \/ reqs[c].kind = "signup" /\ reqs[c].pc = "findOne"
    \/ reqs[c].kind = "r_signup" /\ reqs[c].pc = "save"

EmailTaken(us, e) == \E i \in 1..Len(us) : us[i].email = e

UniqueEmails(us) == \A i, j \in 1..Len(us) : us[i].email = us[j].email => i = j

\* Every stored user is still stored, unchanged, after the step.
UsersKept == /\ Len(users') >= Len(users)
             /\ \A i \in 1..Len(users) : users'[i] = users[i]

ConflictError == <<Resp(400, Err("Email already exists!"))>>

Holders(us, body) ==
    {i \in 1..Len(us) : /\ us[i].email = body.email
                        /\ us[i].password.of = body.password}

\* C2: a signup with name, email and password present whose email is not
\* stored when its insert reaches the store is answered 201 and stores the
\* user under a hash of its password; stored users stay as they are; and
\* every login with the email and password of a stored user is answered 200
\* with a token for that user, valid now, and the user's projection (the
\* store's calls not failing).
C2_RegisterThenLogin ==
    [][/\ UsersKept
       /\ \A c \in Slots :
            /\ (/\ Completes(c)
                /\ reqs[c].pc = "save"
                /\ reqs'[c].kind \in SignupKinds
                /\ ~SignupInvalid(reqs'[c].body)
                /\ ~reqs'[c].fault
                /\ ~EmailTaken(users, reqs'[c].body.email))
               => /\ reqs'[c].res = <<Resp(201, Msg("User registered successfully!"))>>
                  /\ Len(users') = Len(users) + 1
                  /\ Holders(users', reqs'[c].body) = {Len(users')}
            /\ (/\ Completes(c)
                /\ reqs'[c].kind \in LoginKinds
                /\ ~LoginInvalid(reqs'[c].body)
                /\ ~reqs'[c].fault
                /\ Holders(users, reqs'[c].body) # {})
               => /\ Len(reqs'[c].res) = 1
                  /\ LET r == reqs'[c].res[1]
                         u == users[CHOOSE i \in Holders(users, reqs'[c].body) : TRUE]
                     IN  /\ r.status = 200
                         /\ JwtVerifies(r.body.token, JWT_SECRET, now)
                         /\ r.body.token.payload.id = u._id
                         /\ r.body.token.payload.exp = now + 1
                         /\ r.body.user.id = u._id
                         /\ r.body.user.email = u.email
                         /\ "password" \notin DOMAIN r.body.user]_vars

\* A login succeeded for a user who signed up after another one did, while
\* the other connection holds a successful signup.
C2_Witness ==
    \E c, d \in Slots :
        /\ reqs[c].kind \in LoginKinds /\ reqs[c].pc = "done"
        /\ reqs[c].res[1].status = 200
        /\ reqs[c].res[1].body.user.id = 2
        /\ reqs[d].kind \in SignupKinds /\ reqs[d].pc = "done"
        /\ reqs[d].res[1].status = 201

\* What a login handler answers the same body when nobody holds the email.
AnswerToStranger(q) ==
    IF q.kind = "login"
    THEN IF LoginInvalid(q.body)
         THEN Resp(400, Err("All fields are required!"))
         ELSE LoginAnswer(Null, q.body, now)
    ELSE RouterLoginAnswer(Null, q.body, now)

\* C8: a login that fails is answered exactly as the same request is answered
\* when its email has no stored user (the store's calls not failing).
C8_SameFailure ==
    \A c \in Slots :
        (/\ reqs[c].kind \in LoginKinds /\ reqs[c].pc = "done"
         /\ ~reqs[c].fault
         /\ reqs[c].res[1].status # 200)
        => reqs[c].res = <<AnswerToStranger(reqs[c])>>

\* The signup on connection c found no user with its email and went on to
\* insert.
PassedCheck(c) ==
    /\ reqs[c].kind = "signup" /\ reqs[c].pc = "done"
    /\ "doc" \in DOMAIN reqs[c].loc
    /\ ~reqs[c].fault

\* C9: no email is stored twice, and of two signups for one email that both
\* passed the existence check, one is answered 201 and the other 400 'Email
\* already exists!' (the store's calls not failing).
C9_RaceLoserConflict ==
    /\ UniqueEmails(users)
    /\ \A c, d \in Slots :
          (/\ c # d /\ PassedCheck(c) /\ PassedCheck(d)
           /\ reqs[c].body.email = reqs[d].body.email)
          => \/ reqs[c].res[1].status = 201 /\ reqs[d].res = ConflictError
             \/ reqs[d].res[1].status = 201 /\ reqs[c].res = ConflictError

\* The status codes the handlers map their failures to.
ErrorStatus == {400, 401, 403, 500}

\* C10: no request is left without a response, a finished request got
\* exactly one, and a request one of whose store or gateway calls failed
\* got an error status.
C10_AllCaught ==
    \A c \in Slots :
        /\ reqs[c].pc # "unhandled"
        /\ reqs[c].pc = "done" => Len(reqs[c].res) = 1
        /\ reqs[c].pc # "done" => reqs[c].res = <<>>
        /\ reqs[c].fault => reqs[c].res[1].status \in ErrorStatus

(***************************************************************************)
(* Properties of the protected routes                                      *)
(***************************************************************************)

Protected == {"save-travel", "travel-history", "user-data"}

\* The step takes a request for a protected route on connection c.
Arrives(c) == Over(c) /\ reqs'[c] # reqs[c] /\ reqs'[c].kind \in Protected

\* The bearer token of a request: what follows the scheme in its Authorization
\* header, if it has the header and anything follows.
Presented(hdr) ==
    IF hdr.present /\ Len(hdr.parts) >= 2 THEN hdr.parts[2] ELSE NoToken

\* The request was let through to its handler as user id.
LetThroughAs(q, id) ==
    /\ "user" \in DOMAIN q.loc /\ q.loc.user.id = id
    /\ q.pc = "done" => q.kind = "save-travel" /\ q.res = <<Resp(400, Err("All fields are required!"))>>

Refused(q, status, msg) ==
    q.pc = "done" /\ q.res = <<Resp(status, Err(msg))>> /\ "user" \notin DOMAIN q.loc

\* C3: every token a client holds was signed by login for a stored user and
\* runs for one hour; a request that presents one before its expiry is let
\* through as that user; a request that presents one at or after its expiry,
\* or a token that is none of them (altered, signed with another key, no
\* token at all), is never let through.
C3_TokenRoundTrip ==
    [][/\ \A t \in issued' :
            /\ \E i \in 1..Len(users') : users'[i]._id = t.payload.id
            /\ t.payload.exp = t.payload.iat + 1
            /\ t.payload.iat <= now'
       /\ \A c \in Slots :
            /\ (/\ Answers(c) /\ reqs'[c].kind \in LoginKinds
                /\ reqs'[c].res[1].status = 200)
               => /\ reqs'[c].res[1].body.token \in issued'
                  /\ reqs'[c].res[1].body.token.payload.iat = now
                  /\ \E i \in 1..Len(users) :
                        /\ users[i].email = reqs'[c].body.email
                        /\ users[i]._id = reqs'[c].res[1].body.token.payload.id
            /\ Arrives(c) =>
                 LET q == reqs'[c]
                     tok == Presented(q.hdr)
                 IN  /\ (tok \in issued /\ now < tok.payload.exp)
                            => LetThroughAs(q, tok.payload.id)
                     /\ (tok # NoToken /\ (tok \notin issued \/ now >= tok.payload.exp))
                            => Refused(q, 403, "Invalid token!")]_vars

\* A request is in its handler as user 2, let through an hour after the
\* server started.
C3_Witness ==
    \E c \in Slots :
        /\ reqs[c].kind \in Protected /\ reqs[c].pc # "done"
        /\ reqs[c].loc.user.id = 2
        /\ reqs[c].loc.user.iat = 1

\* A request that was refused stays refused.
Gated(q) ==
    q.kind \in Protected =>
        \/ q.pc = "done" /\ q.res[1].status \in {401, 403} /\ "user" \notin DOMAIN q.loc
        \/ "user" \in DOMAIN q.loc /\ (q.pc = "done" => q.res[1].status \notin {401, 403})

\* C4: on the three protected routes a request with no bearer token is
\* answered 401 and one whose token does not verify 403, both at once and
\* with nothing stored; a stored travel record comes from a request that was
\* let through, and a response carrying data goes to one.
C4_GateBeforeHandler ==
    [][/\ \A c \in Slots :
            /\ Gated(reqs'[c])
            /\ Arrives(c) =>
                 LET q == reqs'[c]
                     tok == Presented(q.hdr)
                 IN  /\ tok = NoToken
                            => Refused(q, 401, "Access denied!") /\ travels' = travels
                     /\ (tok # NoToken /\ ~(tok \in issued /\ now < tok.payload.exp))
                            => Refused(q, 403, "Invalid token!") /\ travels' = travels
            /\ (Answers(c) /\ reqs'[c].kind \in Protected /\ reqs'[c].res[1].status \in {200, 201})
                   => reqs[c].pc \in {"save", "find"} /\ "user" \in DOMAIN reqs[c].loc
       /\ travels' # travels =>
            \E c \in Slots : /\ reqs[c].kind = "save-travel" /\ reqs[c].pc = "save"
                             /\ "user" \in DOMAIN reqs[c].loc
                             /\ reqs'[c].res = <<Resp(201, Msg("Travel data saved successfully!"))>>]_vars

\* A request for /user-data was refused for an expired token that a client
\* still holds, after a travel record was stored.
C4_Witness ==
    /\ Len(travels) > 0
    /\ \E c \in Slots :
          /\ reqs[c].kind = "user-data"
          /\ reqs[c].res = <<Resp(403, Err("Invalid token!"))>>
          /\ BearerToken(reqs[c].hdr) \in issued

\* Every stored travel record is still stored, unchanged, after the step.
TravelsKept == /\ Len(travels') >= Len(travels)
               /\ \A i \in 1..Len(travels) : travels'[i] = travels[i]

\* C5: a save that is answered 201 appends one record, owned by the user of
\* its token and dated by the server clock at arrival; stored records stay;
\* and a history that the store answers is a 200 with exactly the stored
\* records of the user of its token, each once, newest date first (empty
\* when the user has none).
C5_HistoryExactAndSorted ==
    [][/\ TravelsKept
       /\ \A c \in Slots :
            /\ (Answers(c) /\ reqs'[c].kind = "save-travel" /\ reqs'[c].res[1].status = 201)
                   => /\ Len(travels') = Len(travels) + 1
                      /\ LET rec == travels'[Len(travels')]
                         IN  /\ rec.userId = Presented(reqs[c].hdr).payload.id
                             /\ rec.destination = reqs[c].body.destination
                             /\ rec.budget = reqs[c].body.budget
                             /\ rec.nights = reqs[c].body.nights
                             /\ rec.date <= now
                             /\ \A i \in 1..Len(travels) : travels[i]._id # rec._id
            /\ (/\ Answers(c) /\ reqs[c].kind = "travel-history" /\ reqs[c].pc = "find"
                /\ ~reqs'[c].fault)
                   => LET uid == Presented(reqs[c].hdr).payload.id
                          r == reqs'[c].res[1]
                          mine == {i \in 1..Len(travels) : travels[i].userId = uid}
                      IN  /\ r.status = 200
                          /\ Len(r.body) = Cardinality(mine)
                          /\ \A i \in mine : \E j \in 1..Len(r.body) : r.body[j] = travels[i]
                          /\ \A j \in 1..Len(r.body) : \E i \in mine : r.body[j] = travels[i]
                          /\ \A j, k \in 1..Len(r.body) :
                                j < k => r.body[j].date >= r.body[k].date]_vars

\* A history lists two records, the newer one first although it was stored
\* first.
C5_Witness ==
    \E c \in Slots :
        /\ reqs[c].kind = "travel-history" /\ reqs[c].pc = "done"
        /\ reqs[c].res[1].status = 200
        /\ Len(reqs[c].res[1].body) = 2
        /\ reqs[c].res[1].body[1].date > reqs[c].res[1].body[2].date
        /\ reqs[c].res[1].body[1]._id < reqs[c].res[1].body[2]._id

(***************************************************************************)
(* Properties of the budget route                                          *)
(***************************************************************************)

\* The tier is a key of the tier table and the mode and fare class resolve
\* to a rate of the transport table.
KnownTariff(body) ==
    /\ body.budgetLevel \in DOMAIN pricing
    /\ body.transportMode \in DOMAIN transportPricing
    /\ body.transportSubtype \in DOMAIN transportPricing[body.transportMode]

\* C6: a budget request whose tier is no key of the tier table, or whose
\* mode and fare class resolve to no rate, is answered 400 and sends nothing
\* to the distance service.
C6_ValidateBeforeCall ==
    \A c \in Slots :
        (reqs[c].kind = "calculate-budget" /\ ~KnownTariff(reqs[c].body))
        => /\ reqs[c].net = 0
           /\ reqs[c].res = <<Resp(400, Err("Invalid budget level or transportation type."))>>

\* The shopping amounts that are amounts, in quarter rupees.
Amount(text) ==
    IF text = <<>> THEN 0
    ELSE IF text = <<"d2", "d5", "d0">> THEN Rupees(250)
    ELSE Rupees(99) + 2

ExampleBody ==
    [budgetLevel |-> "MidRange", transportMode |-> "Bus", transportSubtype |-> "ACBus",
     travelers |-> 2, nights |-> 3, shoppingAmount |-> <<>>]

\* C7: for a known tier and transport and a shopping amount that is absent
\* or a number, the breakdown is travelers * km * rate, travelers * nights *
\* food per day, travelers * nights * hotel per night, the amount, and their
\* sum; the example gives 1000, 3600, 9000, 0 and 13600; and two requests
\* with the same body and the same distance get the same breakdown.
C7_Breakdown ==
    \A c \in Slots :
        (/\ reqs[c].kind = "calculate-budget" /\ reqs[c].pc = "done"
         /\ reqs[c].res[1].status = 200
         /\ KnownTariff(reqs[c].body)
         /\ reqs[c].body.shoppingAmount \in
                {<<>>, <<"d2", "d5", "d0">>, <<"d9", "d9", "pt", "d5">>})
        => LET b == reqs[c].body
               r == reqs[c].res[1].body
               tier == pricing[b.budgetLevel]
               rate == transportPricing[b.transportMode][b.transportSubtype]
               transport == b.travelers * r.distanceInKm.v * rate
               food == Rupees(b.travelers * b.nights * tier.foodCostPerDay)
               hotel == Rupees(b.travelers * b.nights * tier.hotelCostPerNight)
           IN  /\ ~r.distanceInKm.nan
               /\ r.transportationCost = Num(transport)
               /\ r.foodCost = Num(food)
               /\ r.hotelCost = Num(hotel)
               /\ r.shoppingCost = Num(Amount(b.shoppingAmount))
               /\ r.totalCost = Num(transport + food + Amount(b.shoppingAmount) + hotel)
               /\ (b = ExampleBody /\ r.distanceInKm = Num(2 * 100))
                     => /\ r.transportationCost = Num(Rupees(1000))
                        /\ r.foodCost = Num(Rupees(3600))
                        /\ r.hotelCost = Num(Rupees(9000))
                        /\ r.shoppingCost = Num(0)
                        /\ r.totalCost = Num(Rupees(13600))
               /\ \A d \in Slots :
                     (/\ reqs[d].kind = "calculate-budget" /\ reqs[d].pc = "done"
                      /\ reqs[d].res[1].status = 200
                      /\ reqs[d].body = b
                      /\ reqs[d].res[1].body.distanceInKm = r.distanceInKm)
                     => reqs[d].res = reqs[c].res

\* The example was answered for 100 km, and a luxury flight with a shopping
\* amount of 99.5 for 1.5 km.
C7_Witness ==
    \E c, d \in Slots :
        /\ reqs[c].body = ExampleBody
        /\ reqs[c].pc = "done" /\ reqs[c].res[1].status = 200
        /\ reqs[c].res[1].body.totalCost = Num(Rupees(13600))
        /\ reqs[d].kind = "calculate-budget"
        /\ reqs[d].body.budgetLevel = "Luxury"
        /\ reqs[d].body.shoppingAmount = <<"d9", "d9", "pt", "d5">>
        /\ reqs[d].pc = "done" /\ reqs[d].res[1].status = 200
        /\ reqs[d].res[1].body.distanceInKm = Num(3)

====
